---- MODULE Spec2Model ----
(***************************************************************************)
(* A model of src/src/CloudRepository.js: the client of the Bali Nebula    *)
(* cloud repository.  Every facade operation mints a credential with the   *)
(* notary, validates the (type, method) pair, sends one HTTP request with  *)
(* axios, interprets the response and wraps every failure in an            *)
(* `unexpected` exception.                                                 *)
(***************************************************************************)
EXTENDS Integers, Sequences, FiniteSets, TLC

VARIABLES
    account,    \* notary.getAccount(), captured by repository()
    cloudURL,   \* the base address captured by repository()
    debug,      \* the debug flag captured by repository()
    citation,   \* the citation document held by the notary
    entropy,    \* the number of tags bali.tag() has handed out
    calls,      \* the facade calls in progress, one slot per caller
    started,    \* the number of facade calls made so far
    wire,       \* the HTTP requests handed to axios so far, in order
    console,    \* the lines written with console.error
    store,      \* the documents the repository holds, by kind and identifier
    queues,     \* the messages the repository holds, by queue
    ledger      \* what the callers have been told: the last acknowledged write

vars == <<account, cloudURL, debug, citation, entropy, calls, started, wire,
          console, store, queues, ledger>>

-----------------------------------------------------------------------------
(* Bounds of the model. *)

\* The number of facade calls a behaviour makes.
MaxCalls == 3

\* The callers that may have a call in progress at the same time.
Procs == {"p1", "p2"}

\* The caller of the behaviours in which one call is awaited before the next.
Callers == {"p1"}

\* The identifiers and payloads the callers pass.
Identifiers == {"id1", "id2"}

Payloads == {"", "[$foo: 1]", "[$bar: 2]"}

\* The statuses, status texts and bodies a server may answer with.
Statuses == {200, 399, 400, 404, 500}

Bodies == {"", "[$foo: 1]"}

\* The identifier the caller of the repository passes.
RepositoryIdentifier == "id1"

\* What each of the concurrent callers passes.
ProcIdentifier(p) == IF p = "p1" THEN "id1" ELSE "id2"

ProcPayload(p) == IF p = "p1" THEN "[$foo: 1]" ELSE "[$bar: 2]"

\* The types and methods sendRequest is applied to when it is checked alone.
AnyTypes == {"certificate", "draft", "document", "type", "queue", "account"}

AnyMethods == {"HEAD", "GET", "POST", "PUT", "DELETE", "PATCH"}

-----------------------------------------------------------------------------
(* JavaScript values: a boolean, a string or undefined. *)

Undefined == [t |-> "undefined", b |-> FALSE, s |-> ""]

Bool(b) == [t |-> "boolean", b |-> b, s |-> ""]

Str(s) == [t |-> "string", b |-> FALSE, s |-> s]

\* JavaScript truthiness: undefined, false and the empty string are falsy.
Truthy(v) == \/ v.t = "boolean" /\ v.b
             \/ v.t = "string" /\ v.s # ""

\* bali.NONE, the value of an attribute that is not there.
NONE == "none"

\* x || bali.NONE for a string x.
OrNone(v) == IF Truthy(v) THEN v.s ELSE NONE

\* The mark of an attribute an exception does not have.
Absent == "absent"

NoStatus == -1

-----------------------------------------------------------------------------
(* The facade operations: the name of the function, the function name it   *)
(* gives to sendRequest, the method and type it gives to sendRequest, the  *)
(* function name, the identifier attribute and the payload attribute of    *)
(* its `unexpected` exception, and whether it returns what sendRequest     *)
(* returned.                                                               *)

Operation(name, sendName, method, type, catchName, idKey, docKey, returns) ==
    [name |-> name, sendName |-> sendName, catchName |-> catchName,
     method |-> method, type |-> type,
     idKey |-> idKey, docKey |-> docKey, returns |-> returns]

certificateExists ==
    Operation("certificateExists", "$certificateExists", "HEAD", "certificate",
              "$certificateExists", "$certificateId", Absent, TRUE)

fetchCertificate ==
    Operation("fetchCertificate", "$fetchCertificate", "GET", "certificate",
              "$fetchCertificate", "$certificateId", Absent, TRUE)

createCertificate ==
    Operation("createCertificate", "$createCertificate", "POST", "certificate",
              "$createCertificate", "$certificateId", "$certificate", FALSE)

draftExists ==
    Operation("draftExists", "$draftExists", "HEAD", "draft",
              "$draftExists", "$draftId", Absent, TRUE)

fetchDraft ==
    Operation("fetchDraft", "$fetchDraft", "GET", "draft",
              "$fetchDraft", "$draftId", Absent, TRUE)

saveDraft ==
    Operation("saveDraft", "$saveDraft", "PUT", "draft",
              "$saveDraft", "$draftId", "$draft", FALSE)

\* deleteDraft with the method of saveDraft.
deleteDraftAsSave ==
    Operation("deleteDraft", "$deleteDraft", "PUT", "draft",
              "$deleteDraft", "$draftId", Absent, FALSE)

deleteDraft ==
    Operation("deleteDraft", "$deleteDraft", "DELETE", "draft",
              "$deleteDraft", "$draftId", Absent, FALSE)

documentExists ==
    Operation("documentExists", "$documentExists", "HEAD", "document",
              "$documentExists", "$documentId", Absent, TRUE)

fetchDocument ==
    Operation("fetchDocument", "$fetchDocument", "GET", "document",
              "$fetchDocument", "$documentId", Absent, TRUE)

createDocument ==
    Operation("createDocument", "$createDocument", "POST", "document",
              "$createDocument", "$documentId", "$document", FALSE)

typeExists ==
    Operation("typeExists", "$typeExists", "HEAD", "type",
              "$typeExists", "$typeId", Absent, TRUE)

fetchType ==
    Operation("fetchType", "$fetchType", "GET", "type",
              "$fetchType", "$typeId", Absent, TRUE)

createType ==
    Operation("createType", "$createType", "POST", "type",
              "$createType", "$typeId", "$type", FALSE)

queueMessage ==
    Operation("queueMessage", "$queueMessage", "PUT", "queue",
              "$queueMessage", "$queueId", "$message", FALSE)

dequeueMessage ==
    Operation("dequeueMessage", "$dequeueMessage", "GET", "queue",
              "$dequeueMessage", "$queueId", Absent, TRUE)

Facade ==
    {certificateExists, fetchCertificate, createCertificate,
     draftExists, fetchDraft, saveDraft, deleteDraft,
     documentExists, fetchDocument, createDocument,
     typeExists, fetchType, createType,
     queueMessage, dequeueMessage}

ExistsOps == {certificateExists, draftExists, documentExists, typeExists}

FetchOps == {fetchCertificate, fetchDraft, fetchDocument, fetchType, dequeueMessage}

WriteOps == {createCertificate, saveDraft, createDocument, createType, queueMessage}

-----------------------------------------------------------------------------
(* Exceptions.  An exception made by sendRequest or by the notary has no   *)
(* cause; the `unexpected` exception of the facade has one.                *)

\* The cause of an exception that was made without one.
NoCause ==
    [response |-> FALSE, request |-> FALSE, status |-> NoStatus,
     statusText |-> Absent]

\* bali.exception(attributes), as sendRequest calls it: with the attributes
\* only, so that the exception is made without a cause.
Exception(function, exception, url, method, type, parameter, status, details) ==
    [module |-> "$CloudRepository", function |-> function, exception |-> exception,
     url |-> url, method |-> method, type |-> type, parameter |-> parameter,
     status |-> status, details |-> details, cause |-> NoCause]

NoException ==
    [module |-> Absent, function |-> Absent, exception |-> Absent,
     url |-> Absent, method |-> Absent, type |-> Absent, parameter |-> Absent,
     status |-> NoStatus, details |-> Absent, cause |-> NoCause]

\* The failure of the notary, which is not an exception of this module.
NotaryFailure(function) ==
    [module |-> "$Notary", function |-> function, exception |-> "$notaryFailure",
     url |-> Absent, method |-> Absent, type |-> Absent, parameter |-> Absent,
     status |-> NoStatus, details |-> Absent, cause |-> NoCause]

\* AllowedMethods with the case of the queue copied from the case of the draft.
AllowedMethodsCopied(type) ==
    CASE type = "certificate" -> {"HEAD", "POST", "GET"}
      [] type = "draft"       -> {"HEAD", "PUT", "GET", "DELETE"}
      [] type = "document"    -> {"HEAD", "POST", "GET"}
      [] type = "type"        -> {"HEAD", "POST", "GET"}
      [] type = "queue"       -> {"HEAD", "PUT", "GET", "DELETE"}
      [] OTHER                -> {}

\* The allowed methods of each case of the switch on the type.
AllowedMethods(type) ==
    CASE type = "certificate" -> {"HEAD", "POST", "GET"}
      [] type = "draft"       -> {"HEAD", "PUT", "GET", "DELETE"}
      [] type = "document"    -> {"HEAD", "POST", "GET"}
      [] type = "type"        -> {"HEAD", "POST", "GET"}
      [] type = "queue"       -> {"PUT", "GET"}
      [] OTHER                -> {}

KnownTypes == {"certificate", "draft", "document", "type", "queue"}

\* The exception the switch throws, NoException when it breaks out.
Validate(functionName, url, method, type) ==
    IF type \notin KnownTypes
    THEN Exception(functionName, "$invalidParameter", Absent, Absent, Absent,
                   type, NoStatus, Absent)
    ELSE IF method \in AllowedMethods(type)
    THEN NoException
    ELSE Exception(functionName, "$invalidParameter",
                   IF type = "certificate" THEN url ELSE Absent,
                   method, type, Absent, NoStatus, Absent)

-----------------------------------------------------------------------------
(* The credentials. *)

\* bali.tag(): a random tag of 20 bytes, modelled as a tag never handed out
\* before; n is the number of tags handed out so far.
BaliTag(n) == n + 1

\* bali.version(): the first version.
BaliVersion == "v1"

\* CredentialsDocument without the new tag.
CredentialsDocumentSameTag(cit, n) ==
    [cit EXCEPT !.version = BaliVersion,
                !.permissions = "$Private", !.previous = NONE]

\* The document generateCredentials hands to notary.notarizeDocument: a
\* duplicate of the citation with its four parameters overwritten.
CredentialsDocument(cit, n) ==
    [cit EXCEPT !.tag = BaliTag(n), !.version = BaliVersion,
                !.permissions = "$Private", !.previous = NONE]

\* notary.notarizeDocument(document): the document with the seal of the account.
Notarize(document, acct) == [document |-> document, seal |-> acct]

NoCredentials == [document |-> [tag |-> 0, version |-> Absent,
                                permissions |-> Absent, previous |-> Absent,
                                protocol |-> Absent],
                  seal |-> Absent]

-----------------------------------------------------------------------------
(* The request. *)

\* fullURL without the slash between the type and the identifier.
fullURLWithoutSlash(url, type, identifier) == url \o type \o identifier

fullURL(url, type, identifier) == url \o type \o "/" \o identifier

\* validateStatus that accepts every status below 500.
validateStatusLenient(status) == status < 500

\* validateStatus without the exception made for 404.
validateStatusStrict(status) == status < 400

validateStatus(status) == status < 400 \/ status = 404

\* document ? document.toString() : undefined
Data(document) == IF Truthy(document) THEN Str(document.s) ELSE Undefined

\* '"' + bali.format(credentials, -1) + '"'
CredentialsHeader(credentials) == <<"\"", credentials, "\"">>

\* Options without the body.
OptionsWithoutData(credentials, url, method, type, identifier, document) ==
    [url |-> url \o type \o "/" \o identifier,
     method |-> method,
     responseType |-> "text",
     credentials |-> <<"\"", credentials, "\"">>,
     data |-> Undefined,
     contentType |-> Absent,
     contentLength |-> NoStatus]

\* Options with the url of a document whatever the type.
OptionsOnDocuments(credentials, url, method, type, identifier, document) ==
    LET data == Data(document) IN
    [url |-> fullURL(url, "document", identifier),
     method |-> method,
     responseType |-> "text",
     credentials |-> CredentialsHeader(credentials),
     data |-> IF Truthy(data) THEN data ELSE Undefined,
     contentType |-> IF Truthy(data) THEN "application/bali" ELSE Absent,
     contentLength |-> IF Truthy(data) THEN Len(data.s) ELSE NoStatus]

\* Options with the identifier read from a variable that the calls in
\* progress share.
OptionsOfSharedIdentifier(credentials, url, method, type, identifier, document) ==
    LET data == Data(document)
        shared == calls[CHOOSE q \in Procs : calls[q].pc # "idle"].identifier
    IN
    [url |-> fullURL(url, type, shared),
     method |-> method,
     responseType |-> "text",
     credentials |-> CredentialsHeader(credentials),
     data |-> IF Truthy(data) THEN data ELSE Undefined,
     contentType |-> IF Truthy(data) THEN "application/bali" ELSE Absent,
     contentLength |-> IF Truthy(data) THEN Len(data.s) ELSE NoStatus]

Options(credentials, url, method, type, identifier, document) ==
    LET data == Data(document) IN
    [url |-> fullURL(url, type, identifier),
     method |-> method,
     responseType |-> "text",
     credentials |-> CredentialsHeader(credentials),
     data |-> IF Truthy(data) THEN data ELSE Undefined,
     contentType |-> IF Truthy(data) THEN "application/bali" ELSE Absent,
     contentLength |-> IF Truthy(data) THEN Len(data.s) ELSE NoStatus]

NoOptions ==
    [url |-> Absent, method |-> Absent, responseType |-> Absent,
     credentials |-> CredentialsHeader(NoCredentials), data |-> Undefined,
     contentType |-> Absent, contentLength |-> NoStatus]

-----------------------------------------------------------------------------
(* What the transport does with a request, and what axios makes of it. *)

StatusText(status) ==
    CASE status = 200 -> "OK"
      [] status = 201 -> "Created"
      [] status = 400 -> "Bad Request"
      [] status = 404 -> "Not Found"
      [] status = 409 -> "Conflict"
      [] status = 500 -> "Internal Server Error"
      [] OTHER        -> ""

Answer(status, data) ==
    [kind |-> "response", status |-> status, statusText |-> StatusText(status),
     data |-> data]

\* The request was sent and nothing came back.
NoAnswer == [kind |-> "request", status |-> 0, statusText |-> "", data |-> ""]

\* The request could not be set up.
NotSent == [kind |-> "setup", status |-> NoStatus, statusText |-> "", data |-> ""]

NoEvent == [kind |-> Absent, status |-> NoStatus, statusText |-> "", data |-> ""]

Events == {Answer(s, b) : s \in Statuses, b \in Bodies} \cup {NoAnswer, NotSent}

\* The answers the concurrent callers get.
ConcurrentEvents == {Answer(200, "[$foo: 1]"), Answer(404, ""), NoAnswer}

\* axios resolves with the response when validateStatus accepts its status.
Resolves(event) == event.kind = "response" /\ validateStatus(event.status)

\* The error axios rejects with: cause.response is set when there was a
\* response, cause.request when the request was made.
Cause(event) ==
    [response |-> event.kind = "response",
     request |-> event.kind \in {"response", "request"},
     status |-> event.status, statusText |-> event.statusText]

\* Result with a HEAD or DELETE that succeeds on 200 only.
ResultOn200(method, response) ==
    IF method \in {"HEAD", "DELETE"}
    THEN Bool(response.status = 200)
    ELSE IF Truthy(Str(response.data)) THEN Str(response.data) ELSE Undefined

\* The result sendRequest returns for a response.
Result(method, response) ==
    IF method \in {"HEAD", "DELETE"}
    THEN Bool(response.status # 404)
    ELSE IF Truthy(Str(response.data)) THEN Str(response.data) ELSE Undefined

\* Translate without the test of cause.request.
TranslateWithoutRequest(functionName, options, method, cause) ==
    IF cause.response
    THEN Exception(functionName, "$invalidRequest", options.url, method, Absent,
                   Absent, cause.status, cause.statusText)
    ELSE Exception(functionName, "$malformedRequest", options.url, options.method,
                   Absent, Absent, NoStatus, Absent)

\* Translate with the test of cause.request made first.
TranslateRequestFirst(functionName, options, method, cause) ==
    IF cause.request
    THEN Exception(functionName, "$serverDown", options.url, method, Absent,
                   Absent, cause.status, cause.statusText)
    ELSE IF cause.response
    THEN Exception(functionName, "$invalidRequest", options.url, method, Absent,
                   Absent, cause.status, cause.statusText)
    ELSE Exception(functionName, "$malformedRequest", options.url, options.method,
                   Absent, Absent, NoStatus, Absent)

\* The exception sendRequest throws for the error axios rejected with.
Translate(functionName, options, method, cause) ==
    IF cause.response
    THEN Exception(functionName, "$invalidRequest", options.url, method, Absent,
                   Absent, cause.status, cause.statusText)
    ELSE IF cause.request
    THEN Exception(functionName, "$serverDown", options.url, method, Absent,
                   Absent, cause.status, cause.statusText)
    ELSE Exception(functionName, "$malformedRequest", options.url, options.method,
                   Absent, Absent, NoStatus, Absent)

-----------------------------------------------------------------------------
(* The outcome of a call: a returned value or a thrown exception. *)

NoOutcome == [kind |-> Absent, value |-> Undefined, exception |-> NoException,
              wrapped |-> FALSE, context |-> <<>>]

Returned(value) == [NoOutcome EXCEPT !.kind = "return", !.value = value]

\* An exception of sendRequest that reaches the caller of sendRequest.
Thrown(exception) == [NoOutcome EXCEPT !.kind = "throw", !.exception = exception]

\* Unexpected with the exception caught thrown again as it is.
Rethrown(op, acct, url, identifier, document, cause) ==
    [NoOutcome EXCEPT !.kind = "throw", !.exception = cause]

\* The catch clause of a facade operation: the `unexpected` exception with the
\* attributes of the operation and what was caught as its cause.
Unexpected(op, acct, url, identifier, document, cause) ==
    [kind |-> "throw", value |-> Undefined, exception |-> cause, wrapped |-> TRUE,
     context |-> [module |-> "$CloudRepository",
                  function |-> op.catchName,
                  exception |-> "$unexpected",
                  account |-> IF acct # "" THEN acct ELSE NONE,
                  url |-> IF url # "" THEN url ELSE NONE,
                  idKey |-> op.idKey,
                  id |-> IF identifier # "" THEN identifier ELSE NONE,
                  docKey |-> op.docKey,
                  doc |-> IF op.docKey = Absent THEN Absent ELSE OrNone(document)]]

\* Handback of an operation without a return statement.
HandbackNothing(op, result) == Undefined

\* What a facade operation hands back when sendRequest returned result.
Handback(op, result) == IF op.returns THEN result ELSE Undefined

-----------------------------------------------------------------------------
(* The state of a call. *)

NoOperation ==
    [name |-> Absent, sendName |-> Absent, catchName |-> Absent, method |-> Absent, type |-> Absent,
     idKey |-> Absent, docKey |-> Absent, returns |-> FALSE]

\* A call of sendRequest that does not come from the facade.
Direct(method, type) ==
    [name |-> "sendRequest", sendName |-> "$sendRequest", catchName |-> Absent, method |-> method,
     type |-> type, idKey |-> Absent, docKey |-> Absent, returns |-> TRUE]

Idle ==
    [pc |-> "idle", facade |-> TRUE, op |-> NoOperation, identifier |-> "",
     payload |-> Undefined, serial |-> 0,
     unsigned |-> NoCredentials.document, credentials |-> NoCredentials,
     options |-> NoOptions, event |-> NoEvent, outcome |-> NoOutcome,
     citations |-> 0, notarizations |-> 0, validations |-> 0, requests |-> 0]

PayloadValues == {Undefined} \cup {Str(s) : s \in Payloads}

StoreKinds == {"certificate", "draft", "document", "type"}

NoEntry == [exists |-> FALSE, payload |-> Undefined]

\* The state once repository(notary, cloudURL, debug) has returned, for the
\* debug flags given.
Constructed(flags) ==
    /\ account = "#ACCOUNT"
    /\ cloudURL = "https://bali-nebula.net/repository/"
    /\ debug \in flags
    /\ citation = [protocol |-> "v1", tag |-> 0, version |-> "v3",
                   permissions |-> "$Public", previous |-> NONE]
    /\ entropy = 0
    /\ calls = [p \in Procs |-> Idle]
    /\ started = 0
    /\ wire = <<>>
    /\ console = 0
    /\ store = [k \in StoreKinds |-> [i \in Identifiers |-> Undefined]]
    /\ queues = [i \in Identifiers |-> <<>>]
    /\ ledger = [k \in StoreKinds |-> [i \in Identifiers |-> NoEntry]]

Init == Constructed(BOOLEAN)

\* repository(notary, cloudURL) without the debug flag.
InitQuiet == Constructed({FALSE})

-----------------------------------------------------------------------------
(* The steps of a call. *)

\* Caught with a catch clause that, when debug is set, writes the exception
\* and does not throw it.
CaughtAndSilenced(c, cause) ==
    IF debug /\ c.facade
    THEN [c EXCEPT !.pc = "settled", !.outcome = Returned(Undefined)]
    ELSE [c EXCEPT !.pc = "settled",
                   !.outcome = IF c.facade
                               THEN Unexpected(c.op, account, cloudURL, c.identifier,
                                               c.payload, cause)
                               ELSE Thrown(cause)]

\* The call as it is once cause was thrown inside it: a facade operation
\* catches it and throws `unexpected`, sendRequest called alone throws it as is.
Caught(c, cause) ==
    [c EXCEPT !.pc = "settled",
              !.outcome = IF c.facade
                          THEN Unexpected(c.op, account, cloudURL, c.identifier,
                                          c.payload, cause)
                          ELSE Thrown(cause)]

\* if (debug) console.error(exception.toString())
Logged(c) == IF debug /\ c.facade THEN console + 1 ELSE console

\* A caller calls a facade operation, which calls generateCredentials, which
\* calls notary.getCitation() and awaits it.
Call(p, op, identifier, payload) ==
    /\ calls[p].pc = "idle"
    /\ started < MaxCalls
    /\ started' = started + 1
    /\ calls' = [calls EXCEPT ![p] =
                    [Idle EXCEPT !.pc = "getCitation", !.op = op,
                                 !.identifier = identifier,
                                 !.payload = IF op.docKey = Absent THEN Undefined
                                             ELSE payload,
                                 !.serial = started + 1,
                                 !.citations = 1]]
    /\ UNCHANGED <<account, cloudURL, debug, citation, entropy, wire, console,
                   store, queues, ledger>>

\* notary.getCitation() resolves: the citation is duplicated, its parameters
\* are set and notary.notarizeDocument(document) is called and awaited.
CitationResolves(p) ==
    /\ calls[p].pc = "getCitation"
    /\ entropy' = entropy + 1
    /\ calls' = [calls EXCEPT ![p].pc = "notarizeDocument",
                              ![p].unsigned = CredentialsDocument(citation, entropy),
                              ![p].notarizations = @ + 1]
    /\ UNCHANGED <<account, cloudURL, debug, citation, started, wire, console,
                   store, queues, ledger>>

\* CitationRejects with a generateCredentials that swallows the rejection
\* and returns without credentials.
CitationRejectsAndGoesOn(p) ==
    /\ calls[p].pc = "getCitation"
    /\ calls' = [calls EXCEPT ![p].pc = "sendRequest"]
    /\ UNCHANGED <<account, cloudURL, debug, citation, entropy, started, wire,
                   console, store, queues, ledger>>

\* notary.getCitation() rejects.
CitationRejects(p) ==
    /\ calls[p].pc = "getCitation"
    /\ calls' = [calls EXCEPT ![p] = Caught(@, NotaryFailure("$getCitation"))]
    /\ console' = Logged(calls[p])
    /\ UNCHANGED <<account, cloudURL, debug, citation, entropy, started, wire,
                   store, queues, ledger>>

\* notary.notarizeDocument(document) resolves: generateCredentials returns.
NotarizeResolves(p) ==
    /\ calls[p].pc = "notarizeDocument"
    /\ calls' = [calls EXCEPT ![p].pc = "sendRequest",
                              ![p].credentials = Notarize(calls[p].unsigned, account)]
    /\ UNCHANGED <<account, cloudURL, debug, citation, entropy, started, wire,
                   console, store, queues, ledger>>

\* notary.notarizeDocument(document) rejects.
NotarizeRejects(p) ==
    /\ calls[p].pc = "notarizeDocument"
    /\ calls' = [calls EXCEPT ![p] = Caught(@, NotaryFailure("$notarizeDocument"))]
    /\ console' = Logged(calls[p])
    /\ UNCHANGED <<account, cloudURL, debug, citation, entropy, started, wire,
                   store, queues, ledger>>

\* sendRequest up to its await: the switch throws, or the options are set up
\* and handed to axios.
SendRequest(p) ==
    LET c == calls[p]
        thrown == Validate(c.op.sendName, cloudURL, c.op.method, c.op.type)
        options == Options(c.credentials, cloudURL, c.op.method, c.op.type,
                           c.identifier, c.payload)
    IN  /\ c.pc = "sendRequest"
        /\ IF thrown # NoException
           THEN /\ calls' = [calls EXCEPT ![p] =
                                Caught([c EXCEPT !.validations = @ + 1], thrown)]
                /\ console' = Logged(c)
                /\ wire' = wire
           ELSE /\ calls' = [calls EXCEPT ![p].pc = "axios",
                                          ![p].options = options,
                                          ![p].validations = @ + 1,
                                          ![p].requests = @ + 1]
                /\ wire' = Append(wire, [serial |-> c.serial,
                                         credentials |-> options.credentials])
                /\ console' = console
        /\ UNCHANGED <<account, cloudURL, debug, citation, entropy, started,
                       store, queues, ledger>>

\* Settled with a sendRequest that starts over when axios rejects.
SettledWithRetry(c, event) ==
    IF Resolves(event)
    THEN [c EXCEPT !.pc = "settled", !.event = event,
                   !.outcome = Returned(IF c.facade
                                        THEN Handback(c.op, Result(c.op.method, event))
                                        ELSE Result(c.op.method, event))]
    ELSE [c EXCEPT !.pc = "sendRequest", !.event = event]

\* The call as it is once axios has settled with event.
Settled(c, event) ==
    IF Resolves(event)
    THEN [c EXCEPT !.pc = "settled", !.event = event,
                   !.outcome = Returned(IF c.facade
                                        THEN Handback(c.op, Result(c.op.method, event))
                                        ELSE Result(c.op.method, event))]
    ELSE Caught([c EXCEPT !.event = event],
                Translate(c.op.sendName, c.options, c.op.method, Cause(event)))

\* axios settles, with whatever the transport did with the request.
AxiosSettles(p, event) ==
    /\ calls[p].pc = "axios"
    /\ calls' = [calls EXCEPT ![p] = Settled(@, event)]
    /\ console' = IF Resolves(event) THEN console ELSE Logged(calls[p])
    /\ UNCHANGED <<account, cloudURL, debug, citation, entropy, started, wire,
                   store, queues, ledger>>

\* The caller takes the outcome: nothing of the call is kept.
Return(p) ==
    /\ calls[p].pc = "settled"
    /\ calls' = [calls EXCEPT ![p] = Idle]
    /\ UNCHANGED <<account, cloudURL, debug, citation, entropy, started, wire,
                   console, store, queues, ledger>>

\* sendRequest is called on its own, with credentials made beforehand.
SendCall(p, method, type, identifier, payload) ==
    /\ calls[p].pc = "idle"
    /\ started < MaxCalls
    /\ started' = started + 1
    /\ calls' = [calls EXCEPT ![p] =
                    [Idle EXCEPT !.pc = "sendRequest", !.facade = FALSE,
                                 !.op = Direct(method, type),
                                 !.identifier = identifier,
                                 !.payload = payload,
                                 !.serial = started + 1,
                                 !.credentials =
                                     Notarize(CredentialsDocument(citation, 0), account)]]
    /\ UNCHANGED <<account, cloudURL, debug, citation, entropy, wire, console,
                   store, queues, ledger>>

-----------------------------------------------------------------------------
(* The repository behind the address, as the specification describes it:   *)
(* certificates, documents and types are created once, drafts are saved    *)
(* over and deleted, queues hand out each message once, in any order.      *)

\* The kind and the identifier a request addresses.
Resource(url) ==
    CHOOSE r \in KnownTypes \X Identifiers : fullURL(cloudURL, r[1], r[2]) = url

\* The body of a request, empty when it has none.
Body(options) == IF options.data = Undefined THEN "" ELSE options.data.s

\* q without its n-th message.
Without(q, n) == SubSeq(q, 1, n - 1) \o SubSeq(q, n + 1, Len(q))

\* What the repository may do with a request: its answer and what it holds
\* afterwards.
Served(options) ==
    LET kind == Resource(options.url)[1]
        id == Resource(options.url)[2]
        Kept(answer) == [event |-> answer, store |-> store, queues |-> queues]
    IN  IF kind = "queue"
        THEN IF options.method = "PUT"
             THEN {[event |-> Answer(201, ""), store |-> store,
                    queues |-> [queues EXCEPT ![id] = Append(@, Body(options))]]}
             ELSE IF queues[id] = <<>>
             THEN {Kept(Answer(404, ""))}
             ELSE {[event |-> Answer(200, queues[id][n]), store |-> store,
                    queues |-> [queues EXCEPT ![id] = Without(@, n)]] :
                      n \in 1..Len(queues[id])}
        ELSE LET held == store[kind][id]
                 Put(status) ==
                     [event |-> Answer(status, ""),
                      store |-> [store EXCEPT ![kind][id] = Str(Body(options))],
                      queues |-> queues]
             IN  CASE options.method = "HEAD" ->
                        {Kept(Answer(IF held = Undefined THEN 404 ELSE 200, ""))}
                   [] options.method = "GET" ->
                        {Kept(IF held = Undefined THEN Answer(404, "")
                                                  ELSE Answer(200, held.s))}
                   [] options.method = "POST" ->
                        {IF held = Undefined THEN Put(201) ELSE Kept(Answer(409, ""))}
                   [] options.method = "PUT" ->
                        {Put(IF held = Undefined THEN 201 ELSE 200)}
                   [] OTHER ->
                        {IF held = Undefined
                         THEN Kept(Answer(404, ""))
                         ELSE [event |-> Answer(200, ""),
                               store |-> [store EXCEPT ![kind][id] = Undefined],
                               queues |-> queues]}

\* What the callers have been told once call c has settled: a create or a save
\* that returned has written its payload, a delete that returned has removed it.
Told(c) ==
    IF c.outcome.kind = "return" /\ c.op.type \in StoreKinds
    THEN IF c.op.method \in {"POST", "PUT"}
         THEN [ledger EXCEPT ![c.op.type][c.identifier] =
                                 [exists |-> TRUE, payload |-> c.payload]]
         ELSE IF c.op.method = "DELETE"
         THEN [ledger EXCEPT ![c.op.type][c.identifier] = NoEntry]
         ELSE ledger
    ELSE ledger

\* The failures of a request that leave the repository as it was.
Outages == {NoAnswer}

\* The repository answers the request and axios settles with the answer.
RepositoryAnswers(p) ==
    /\ calls[p].pc = "axios"
    /\ \E served \in Served(calls[p].options) :
          /\ calls' = [calls EXCEPT ![p] = Settled(@, served.event)]
          /\ console' = IF Resolves(served.event) THEN console ELSE Logged(calls[p])
          /\ store' = served.store
          /\ queues' = served.queues
          /\ ledger' = Told(Settled(calls[p], served.event))
    /\ UNCHANGED <<account, cloudURL, debug, citation, entropy, started, wire>>

\* One caller that awaits each call before it makes the next, with every
\* input and every answer of the transport.
Next ==
    \/ \E p \in Callers, op \in Facade, i \in Identifiers, d \in PayloadValues :
          Call(p, op, i, d)
    \/ \E p \in Callers : CitationResolves(p)
    \/ \E p \in Callers : CitationRejects(p)
    \/ \E p \in Callers : NotarizeResolves(p)
    \/ \E p \in Callers : NotarizeRejects(p)
    \/ \E p \in Callers : SendRequest(p)
    \/ \E p \in Callers, e \in Events : AxiosSettles(p, e)
    \/ \E p \in Callers : Return(p)

Spec == Init /\ [][Next]_vars

\* No call has settled without its caller having taken the outcome.
AllTaken == \A p \in Procs : calls[p].pc # "settled"

\* Callers that make their calls without awaiting each other's, with a notary
\* that works.  A caller takes the outcome of its call as soon as the call has
\* settled.
NextConcurrent ==
    \/ \E p \in Procs, op \in Facade :
          AllTaken /\ Call(p, op, ProcIdentifier(p), Str(ProcPayload(p)))
    \/ \E p \in Procs : AllTaken /\ CitationResolves(p)
    \/ \E p \in Procs : AllTaken /\ NotarizeResolves(p)
    \/ \E p \in Procs : AllTaken /\ SendRequest(p)
    \/ \E p \in Procs, e \in ConcurrentEvents : AllTaken /\ AxiosSettles(p, e)
    \/ \E p \in Procs : Return(p)

SpecConcurrent == InitQuiet /\ [][NextConcurrent]_vars

\* sendRequest applied to every type and method, with the answers of Next.
NextSend ==
    \/ \E p \in Callers, m \in AnyMethods, t \in AnyTypes, i \in Identifiers,
          d \in PayloadValues :
          SendCall(p, m, t, i, d)
    \/ \E p \in Callers : SendRequest(p)
    \/ \E p \in Callers, e \in Events : AxiosSettles(p, e)
    \/ \E p \in Callers : Return(p)

SpecSend == Init /\ [][NextSend]_vars

\* One caller, a notary that works and the repository: a request is answered
\* by the repository, or fails without having changed anything.
NextRepository ==
    \/ \E p \in Callers, op \in Facade, d \in PayloadValues :
          Call(p, op, RepositoryIdentifier, d)
    \/ \E p \in Callers : CitationResolves(p)
    \/ \E p \in Callers : NotarizeResolves(p)
    \/ \E p \in Callers : SendRequest(p)
    \/ \E p \in Callers : RepositoryAnswers(p)
    \/ \E p \in Callers, e \in Outages : AxiosSettles(p, e)
    \/ \E p \in Callers : Return(p)

SpecRepository == InitQuiet /\ [][NextRepository]_vars

-----------------------------------------------------------------------------
(* The claims. *)

\* The table of the allowed (type, method) pairs.
AllowedTable ==
    ({"certificate", "document", "type"} \X {"HEAD", "GET", "POST"})
        \cup ({"draft"} \X {"HEAD", "GET", "PUT", "DELETE"})
        \cup ({"queue"} \X {"PUT", "GET"})

\* The requests of call c that were handed to axios.
Sent(c) == {n \in 1..Len(wire) : wire[n].serial = c.serial}

\* Call c was answered: axios got a response to its request.
Answered(c) == c.pc = "settled" /\ c.requests = 1 /\ c.event.kind = "response"

\* The `unexpected` exception of the facade operation of call c, with cause as
\* its cause, has reached the caller.
RaisedUnexpected(c, cause) ==
    /\ c.outcome.kind = "throw"
    /\ c.outcome.wrapped
    /\ c.outcome.context.exception = "$unexpected"
    /\ c.outcome.context.function = "$" \o c.op.name
    /\ c.outcome.exception.exception = cause

\* C1: sendRequest, given a type and a method that are not a pair of the
\* table, or a type it does not know, throws $invalidParameter naming them
\* and hands no request to axios; a request handed to axios is of a pair of
\* the table.
C1_ValidationGuardsEveryRequest ==
    \A p \in Procs :
        LET c == calls[p]
            pair == <<c.op.type, c.op.method>>
        IN  /\ (c.pc \in {"axios", "settled"} /\ pair \notin AllowedTable) =>
                  /\ c.pc = "settled"
                  /\ c.outcome.kind = "throw"
                  /\ c.outcome.exception.exception = "$invalidParameter"
                  /\ \/ /\ c.outcome.exception.type = c.op.type
                        /\ c.outcome.exception.method = c.op.method
                     \/ c.outcome.exception.parameter = c.op.type
                  /\ c.requests = 0
                  /\ Sent(c) = {}
            /\ (c.pc # "idle" /\ (c.requests > 0 \/ Sent(c) # {})) =>
                  pair \in AllowedTable

\* A HEAD on a queue was refused and nothing was sent.
C1_Witness ==
    \E p \in Procs :
        /\ calls[p].pc = "settled"
        /\ calls[p].op.type = "queue"
        /\ calls[p].op.method = "HEAD"
        /\ calls[p].outcome.exception.exception = "$invalidParameter"
        /\ wire = <<>>

\* What was thrown inside call c, from how far the call got.
Failure(c) ==
    IF c.notarizations = 0 THEN "$notaryFailure"
    ELSE IF c.validations = 0 THEN "$notaryFailure"
    ELSE IF c.requests = 0 THEN "$invalidParameter"
    ELSE IF c.event.kind = "response" THEN "$invalidRequest"
    ELSE IF c.event.kind = "request" THEN "$serverDown"
    ELSE "$malformedRequest"

\* Call c failed: the notary rejected, the validation threw or the request
\* got nothing but a status of 400 or more that is not 404.
Failed(c) ==
    \/ c.validations = 0
    \/ c.requests = 0
    \/ c.event.kind # "response"
    \/ c.event.status >= 400 /\ c.event.status # 404

\* C2: a facade operation in which something fails throws one exception,
\* $unexpected, that names the operation, carries the account, the url, the
\* identifier and, for a create, a save or an enqueue, the payload, and has
\* what was thrown as its cause; no failure goes unreported.
C2_EveryFailureIsWrappedOnce ==
    \A p \in Procs :
        LET c == calls[p] IN
        (c.pc = "settled" /\ c.facade) =>
            /\ Failed(c) <=> c.outcome.kind = "throw"
            /\ c.outcome.kind = "throw" =>
                  /\ RaisedUnexpected(c, Failure(c))
                  /\ c.outcome.exception.exception # "$unexpected"
                  /\ c.outcome.context.account = account
                  /\ c.outcome.context.url = cloudURL
                  /\ c.outcome.context.id = c.identifier
                  /\ c.op \in WriteOps =>
                        /\ c.outcome.context.docKey # Absent
                        /\ c.outcome.context.doc = OrNone(c.payload)

\* createDocument of a payload was rejected by the server.
C2_Witness ==
    \E p \in Procs :
        /\ calls[p].pc = "settled"
        /\ calls[p].op = createDocument
        /\ calls[p].payload = Str("[$foo: 1]")
        /\ calls[p].outcome.wrapped
        /\ calls[p].outcome.exception.exception = "$invalidRequest"
        /\ calls[p].outcome.context.doc = "[$foo: 1]"

\* C3: a facade operation whose request is answered with a status below 400
\* or with 404 returns; answered with another status, it throws $unexpected
\* caused by $invalidRequest with the status, the status text, the whole url
\* and the method.
C3_StatusPolicy ==
    \A p \in Procs :
        LET c == calls[p] IN
        (Answered(c) /\ c.facade) =>
            IF c.event.status < 400 \/ c.event.status = 404
            THEN c.outcome.kind = "return"
            ELSE /\ RaisedUnexpected(c, "$invalidRequest")
                 /\ c.outcome.exception.status = c.event.status
                 /\ c.outcome.exception.details = c.event.statusText
                 /\ c.outcome.exception.url =
                        cloudURL \o c.op.type \o "/" \o c.identifier
                 /\ c.outcome.exception.method = c.op.method

\* A fetch answered with 404 returned and a save answered with 500 threw.
C3_Witness ==
    \E p \in Procs :
        /\ Answered(calls[p])
        /\ calls[p].op = saveDraft
        /\ calls[p].event.status = 500
        /\ calls[p].outcome.exception.status = 500

\* C4: a fetch or a dequeue answered with 404 returns undefined, whatever
\* the body of the answer.
C4_FetchIsAbsentOn404 ==
    \A p \in Procs :
        LET c == calls[p] IN
        (Answered(c) /\ c.op \in FetchOps /\ c.event.status = 404) =>
            c.outcome = Returned(Undefined)

\* C5: an exists operation that is answered with 404 returns false, and
\* answered with a status below 400 returns true, whatever the body.
C5_ExistsIsNot404 ==
    \A p \in Procs :
        LET c == calls[p] IN
        (Answered(c) /\ c.op \in ExistsOps) =>
            /\ c.event.status = 404 => c.outcome = Returned(Bool(FALSE))
            /\ c.event.status < 400 => c.outcome = Returned(Bool(TRUE))

\* documentExists answered with 399 and a body returned true.
C5_Witness ==
    \E p \in Procs :
        /\ Answered(calls[p])
        /\ calls[p].op = documentExists
        /\ calls[p].event.status = 399
        /\ calls[p].event.data # ""
        /\ calls[p].outcome = Returned(Bool(TRUE))

\* C6: deleteDraft returns true when it is answered with a status below 400
\* and false when it is answered with 404.
C6_DeleteDraftYieldsBoolean ==
    \A p \in Procs :
        LET c == calls[p] IN
        (Answered(c) /\ c.op = deleteDraft /\ c.outcome.kind = "return") =>
            c.outcome.value = Bool(c.event.status # 404)

\* C7: a facade operation whose request was sent and got no response throws
\* $unexpected caused by $serverDown with the url and the method.
C7_NoResponseIsServerDown ==
    \A p \in Procs :
        LET c == calls[p] IN
        (c.pc = "settled" /\ c.facade /\ c.requests = 1
            /\ c.event.kind = "request") =>
            /\ RaisedUnexpected(c, "$serverDown")
            /\ c.outcome.exception.url = cloudURL \o c.op.type \o "/" \o c.identifier
            /\ c.outcome.exception.method = c.op.method

\* dequeueMessage got no response.
C7_Witness ==
    \E p \in Procs :
        /\ calls[p].pc = "settled"
        /\ calls[p].op = dequeueMessage
        /\ calls[p].event = NoAnswer
        /\ calls[p].outcome.exception.exception = "$serverDown"

\* The tag and the version of the credentials a request carries.
Identity(header) == <<header[2].document.tag, header[2].document.version>>

\* C8: in any interleaving of facade calls, a call asks the notary for its
\* citation once and for one notarization, both before it sends its one
\* request; the request carries the credentials notarized in that call; no
\* two requests carry the same credentials, and the credentials of any two
\* requests and of any two calls differ in their tag and version.
C8_OneFreshCredentialPerRequest ==
    /\ \A p \in Procs :
          LET c == calls[p] IN
          /\ c.citations <= 1 /\ c.notarizations <= 1 /\ c.requests <= 1
          /\ Cardinality(Sent(c)) = c.requests
          /\ c.pc # "idle" => c.citations = 1
          /\ c.pc \in {"sendRequest", "axios", "settled"} =>
                c.notarizations = 1 /\ c.credentials # NoCredentials
          /\ c.requests = 1 =>
                /\ c.citations = 1 /\ c.notarizations = 1
                /\ c.options.credentials = <<"\"", c.credentials, "\"">>
                /\ \A n \in Sent(c) : wire[n].credentials = c.options.credentials
    /\ \A m, n \in 1..Len(wire) :
          m # n => Identity(wire[m].credentials) # Identity(wire[n].credentials)
    /\ \A p, q \in Procs :
          (p # q /\ calls[p].credentials # NoCredentials
                 /\ calls[q].credentials # NoCredentials) =>
              Identity(<<"\"", calls[p].credentials, "\"">>)
                  # Identity(<<"\"", calls[q].credentials, "\"">>)

\* Two calls have their requests in flight after an earlier request.
C8_Witness ==
    /\ Len(wire) = 3
    /\ \A p \in Procs : calls[p].pc = "axios"

\* C9: an exists operation the repository answers returns true if a create
\* or a save of the identifier has returned and no delete of it has returned
\* since, and false otherwise.
C9_ExistsFollowsTheWrites ==
    \A p \in Procs :
        LET c == calls[p] IN
        (Answered(c) /\ c.op \in ExistsOps) =>
            c.outcome = Returned(Bool(ledger[c.op.type][c.identifier].exists))

\* documentExists returned true after createDocument had returned.
C9_Witness ==
    \E p \in Procs :
        /\ Answered(calls[p])
        /\ calls[p].op = documentExists
        /\ ledger["document"][calls[p].identifier].exists
        /\ calls[p].outcome = Returned(Bool(TRUE))

CreateOps == {createCertificate, createDocument, createType}

FetchOnceOps == {fetchCertificate, fetchDocument, fetchType}

\* C11, as claimed: a create of a certificate, a document or a type whose
\* identifier a create has already written throws $unexpected caused by
\* $invalidRequest and leaves what the repository holds as it was; a fetch of
\* the identifier returns the payload of the first create, whatever it was.
C11_RefusedCreateKeepsEveryPayload ==
    [][\A p \in Procs :
          LET c == calls[p]
              d == calls'[p]
          IN  (c.pc = "axios" /\ Answered(d)
                  /\ c.op \in CreateOps \cup FetchOnceOps
                  /\ ledger[c.op.type][c.identifier].exists) =>
                  /\ c.op \in CreateOps =>
                        /\ RaisedUnexpected(d, "$invalidRequest")
                        /\ store' = store
                        /\ ledger' = ledger
                  /\ c.op \in FetchOnceOps =>
                        d.outcome = Returned(ledger[c.op.type][c.identifier].payload)
    ]_vars

\* C11, amended: a create of a certificate, a document or a type whose
\* identifier a create has already written throws $unexpected caused by
\* $invalidRequest and leaves what the repository holds as it was; a fetch of
\* the identifier returns the payload of the first create when that payload
\* is not empty, and undefined when it is empty.
C11_RefusedCreateKeepsThePayload ==
    [][\A p \in Procs :
          LET c == calls[p]
              d == calls'[p]
          IN  (c.pc = "axios" /\ Answered(d)
                  /\ c.op \in CreateOps \cup FetchOnceOps
                  /\ ledger[c.op.type][c.identifier].exists) =>
                  /\ c.op \in CreateOps =>
                        /\ RaisedUnexpected(d, "$invalidRequest")
                        /\ store' = store
                        /\ ledger' = ledger
                  /\ c.op \in FetchOnceOps =>
                        d.outcome =
                            Returned(IF Truthy(ledger[c.op.type][c.identifier].payload)
                                     THEN ledger[c.op.type][c.identifier].payload
                                     ELSE Undefined)
    ]_vars

\* createDocument of a second payload was refused with 409 and the repository
\* still holds the payload of the first createDocument.
C11_Witness ==
    \E p \in Procs :
        /\ Answered(calls[p])
        /\ calls[p].op = createDocument
        /\ calls[p].payload = Str("[$bar: 2]")
        /\ calls[p].event.status = 409
        /\ RaisedUnexpected(calls[p], "$invalidRequest")
        /\ ledger["document"][calls[p].identifier].payload = Str("[$foo: 1]")
        /\ store["document"][calls[p].identifier] = Str("[$foo: 1]")

\* Some call has just been answered on a queue.
QueueAnswered ==
    \E p \in Procs :
        calls[p].pc = "axios" /\ Answered(calls'[p]) /\ calls[p].op.type = "queue"

Thrower(c) ==
    IF c.notarizations = 0 THEN NotaryFailure("$getCitation")
    ELSE IF c.validations = 0 THEN NotaryFailure("$notarizeDocument")
    ELSE IF c.requests = 0
    THEN Validate(c.op.sendName, cloudURL, c.op.method, c.op.type)
    ELSE Translate(c.op.sendName, c.options, c.op.method, Cause(c.event))

\* The outcome of the settled call c as its operation, its arguments, the
\* notary and the transport alone decide it.
Decided(c) ==
    IF Failed(c)
    THEN Unexpected(c.op, account, cloudURL, c.identifier, c.payload, Thrower(c))
    ELSE Returned(Handback(c.op, Result(c.op.method, c.event)))

\* Some call has just thrown.
JustThrown ==
    \E p \in Procs :
        /\ calls[p].pc # "settled"
        /\ calls'[p].pc = "settled"
        /\ calls'[p].outcome.kind = "throw"

\* C14: with debug set or not, a facade call returns the value, or throws
\* the $unexpected exception, that its operation, its arguments, the notary
\* and the transport decide; the flag never changes, and the only thing it
\* does is one write to the console in the step that throws.
C14_DebugOnlyWrites ==
    [][/\ debug' = debug
       /\ console' = IF debug /\ JustThrown THEN console + 1 ELSE console
       /\ \A p \in Procs :
             (calls'[p].pc = "settled" /\ calls'[p].facade) =>
                 calls'[p].outcome = Decided(calls'[p])
    ]_vars

\* With debug set, a call whose request got no response has thrown
\* $unexpected and one line was written.
C14_Witness ==
    \E p \in Procs :
        /\ debug
        /\ console = 1
        /\ calls[p].pc = "settled"
        /\ calls[p].event = NoAnswer
        /\ RaisedUnexpected(calls[p], "$serverDown")

\* The method the mapping table gives the operation named name.
TableMethod(name) ==
    CASE name \in {"certificateExists", "draftExists", "documentExists",
                   "typeExists"} -> "HEAD"
      [] name \in {"fetchCertificate", "fetchDraft", "fetchDocument", "fetchType",
                   "dequeueMessage"} -> "GET"
      [] name \in {"createCertificate", "createDocument", "createType"} -> "POST"
      [] name \in {"saveDraft", "queueMessage"} -> "PUT"
      [] name = "deleteDraft" -> "DELETE"

\* The kind the operation named name is about.
OwnKind(name) ==
    CASE name \in {"certificateExists", "fetchCertificate", "createCertificate"} ->
             "certificate"
      [] name \in {"draftExists", "fetchDraft", "saveDraft", "deleteDraft"} -> "draft"
      [] name \in {"documentExists", "fetchDocument", "createDocument"} -> "document"
      [] name \in {"typeExists", "fetchType", "createType"} -> "type"
      [] name \in {"queueMessage", "dequeueMessage"} -> "queue"

\* C15: a facade operation that has its credentials hands axios one request,
\* with the method of the mapping table and the url made of the url of the
\* repository, the kind of the operation, a slash and the identifier it was
\* given.
C15_RequestFollowsTheTable ==
    \A p \in Procs :
        LET c == calls[p] IN
        (c.facade /\ c.pc \in {"axios", "settled"} /\ c.validations = 1) =>
            /\ c.requests = 1
            /\ c.options.method = TableMethod(c.op.name)
            /\ c.options.url =
                   "https://bali-nebula.net/repository/" \o OwnKind(c.op.name)
                       \o "/" \o c.identifier

\* The request of deleteDraft("id2") is with axios.
C15_Witness ==
    \E p \in Procs :
        /\ calls[p].pc = "axios"
        /\ calls[p].op.name = "deleteDraft"
        /\ calls[p].identifier = "id2"
        /\ calls[p].options.method = "DELETE"
        /\ calls[p].options.url = "https://bali-nebula.net/repository/draft/id2"

\* C16: the exception sendRequest throws for the error axios rejected with,
\* $invalidRequest, $serverDown or $malformedRequest, has that error as its
\* cause, so that a facade operation throws $unexpected caused by the
\* translated exception caused by the error of axios.
C16_TranslatedErrorWrapsItsCause ==
    \A p \in Procs :
        LET c == calls[p] IN
        (c.pc = "settled" /\ c.requests = 1 /\ c.outcome.kind = "throw") =>
            /\ c.outcome.exception.exception
                   \in {"$invalidRequest", "$serverDown", "$malformedRequest"}
            /\ c.outcome.exception.cause = Cause(c.event)

\* C17: a facade call hands axios at most one request, so that there are
\* never more requests than calls and no two requests of one call; a call
\* whose request axios rejected has settled with the exception made of that
\* one rejection, and with that one request only.
C17_NoRetry ==
    /\ Len(wire) <= started
    /\ \A m, n \in 1..Len(wire) : m # n => wire[m].serial # wire[n].serial
    /\ \A p \in Procs :
          LET c == calls[p] IN
          /\ c.requests <= 1
          /\ Cardinality(Sent(c)) <= 1
          /\ (c.pc # "idle" /\ c.requests = 1 /\ c.event # NoEvent
                 /\ ~Resolves(c.event)) =>
                 /\ c.pc = "settled"
                 /\ c.outcome.kind = "throw"
                 /\ c.outcome.exception.exception = Failure(c)
                 /\ Cardinality(Sent(c)) = 1

\* The one request of a call could not be set up, and the call has thrown
\* $unexpected caused by $malformedRequest.
C17_Witness ==
    \E p \in Procs :
        /\ calls[p].pc = "settled"
        /\ calls[p].event = NotSent
        /\ calls[p].requests = 1
        /\ Cardinality(Sent(calls[p])) = 1
        /\ RaisedUnexpected(calls[p], "$malformedRequest")

\* Every call in progress has the arguments its caller gave it, its request
\* is made of them and of the credentials notarized in it, and its outcome is
\* the one decided by its own arguments and the answer to its own request.
EachCallIsItsOwn ==
    \A p \in Procs :
        LET c == calls[p] IN
        /\ c.pc # "idle" =>
              /\ c.identifier = ProcIdentifier(p)
              /\ c.payload = IF c.op.docKey = Absent THEN Undefined
                                                      ELSE Str(ProcPayload(p))
        /\ c.requests = 1 =>
              /\ c.options.method = c.op.method
              /\ c.options.url = cloudURL \o c.op.type \o "/" \o ProcIdentifier(p)
              /\ c.options.data = IF c.op.docKey = Absent THEN Undefined
                                                           ELSE Str(ProcPayload(p))
              /\ c.options.credentials = <<"\"", c.credentials, "\"">>
              /\ \A n \in Sent(c) : wire[n].credentials = <<"\"", c.credentials, "\"">>
              /\ \A q \in Procs \ {p} :
                    calls[q].requests = 1 => calls[q].options # c.options
        /\ c.pc = "settled" => c.outcome = Decided(c)

\* C18: in any interleaving of facade calls on one repository, a step of one
\* call leaves every other call as it was, each request carries the kind,
\* the identifier, the payload and the credentials of its own call, each
\* call settles with the outcome of its own request, and no step changes the
\* url of the repository, the account or the citation of the notary.
C18_CallsDoNotInterfere ==
    [][/\ cloudURL' = cloudURL
       /\ account' = account
       /\ citation' = citation
       /\ EachCallIsItsOwn'
       /\ \A p, q \in Procs :
             (p # q /\ calls'[p] # calls[p]) => calls'[q] = calls[q]
    ]_vars

\* The second call has returned the answer to its own request while the
\* request of the first call, made with other credentials, is still with
\* axios.
C18_Witness ==
    \E p, q \in Procs :
        /\ calls[p].pc = "axios"
        /\ calls[p].serial = 1
        /\ calls[p].op = saveDraft
        /\ calls[q].pc = "settled"
        /\ calls[q].serial = 2
        /\ calls[q].op = fetchDocument
        /\ calls[q].outcome = Returned(Str("[$foo: 1]"))
        /\ calls[p].credentials # calls[q].credentials
        /\ citation.tag = 0

\* C19: the exception made of an error axios rejected with is $invalidRequest
\* when the error has a response, else $serverDown when it has a request,
\* else $malformedRequest; an error with a response and a request makes
\* $invalidRequest.
C19_FailureClassifiedByPrecedence ==
    \A p \in Procs :
        LET c == calls[p]
            cause == Cause(c.event)
        IN  (c.pc = "settled" /\ c.requests = 1 /\ c.outcome.kind = "throw") =>
                /\ c.outcome.exception.exception =
                       IF cause.response THEN "$invalidRequest"
                       ELSE IF cause.request THEN "$serverDown"
                       ELSE "$malformedRequest"
                /\ (cause.response /\ cause.request) =>
                       c.outcome.exception.exception = "$invalidRequest"

\* An error with the response 500 and with a request made $invalidRequest.
C19_Witness ==
    \E p \in Procs :
        /\ calls[p].pc = "settled"
        /\ calls[p].event.status = 500
        /\ Cause(calls[p].event).response
        /\ Cause(calls[p].event).request
        /\ calls[p].outcome.exception.exception = "$invalidRequest"

\* C20: the request of a create, a save or an enqueue whose payload is
\* neither undefined nor empty has the payload as its data, the content type
\* application/bali and the length of the payload as its content length; the
\* request of any other call is handed to axios all the same, without data,
\* content type and content length; a HEAD, a GET and a DELETE have no data.
C20_BodyOnlyWithPayload ==
    \A p \in Procs :
        LET c == calls[p] IN
        (c.facade /\ c.pc \in {"axios", "settled"} /\ c.validations = 1) =>
            /\ c.requests = 1
            /\ Cardinality(Sent(c)) = 1
            /\ IF c.op \in WriteOps /\ c.payload \notin {Undefined, Str("")}
               THEN /\ c.options.data = c.payload
                    /\ c.options.contentType = "application/bali"
                    /\ c.options.contentLength = Len(c.payload.s)
               ELSE /\ c.options.data = Undefined
                    /\ c.options.contentType = Absent
                    /\ c.options.contentLength = NoStatus
            /\ c.options.method \in {"HEAD", "GET", "DELETE"} =>
                   c.options.data = Undefined

\* The request of queueMessage with a payload of nine characters is with
\* axios, with the payload and its length.
C20_Witness ==
    \E p \in Procs :
        /\ calls[p].pc = "axios"
        /\ calls[p].op = queueMessage
        /\ calls[p].payload = Str("[$bar: 2]")
        /\ calls[p].options.data = Str("[$bar: 2]")
        /\ calls[p].options.contentType = "application/bali"
        /\ calls[p].options.contentLength = 9

\* The notary rejected in the settled call c: in getCitation when no
\* notarization was asked for, in notarizeDocument when one was asked for and
\* sendRequest was never entered.
NotaryRejectedIn(c) ==
    IF c.notarizations = 0 THEN "$getCitation"
    ELSE IF c.validations = 0 THEN "$notarizeDocument"
    ELSE Absent

\* C21: a facade call in which notary.getCitation() or
\* notary.notarizeDocument() rejects runs no validation and hands axios no
\* request, and throws $unexpected whose cause is the rejection of the notary
\* as it was; in every call the validation and the request come after the
\* citation and the notarization, with the credentials notarized.
C21_NotaryFailureStopsTheCall ==
    \A p \in Procs :
        LET c == calls[p] IN
        /\ (c.pc = "settled" /\ c.facade /\ NotaryRejectedIn(c) # Absent) =>
              /\ c.validations = 0
              /\ c.requests = 0
              /\ Sent(c) = {}
              /\ c.options = NoOptions
              /\ c.outcome.kind = "throw"
              /\ c.outcome.wrapped
              /\ c.outcome.context.exception = "$unexpected"
              /\ c.outcome.context.function = "$" \o c.op.name
              /\ c.outcome.exception =
                     [NoException EXCEPT !.module = "$Notary",
                                         !.function = NotaryRejectedIn(c),
                                         !.exception = "$notaryFailure"]
        /\ (c.facade /\ (c.validations > 0 \/ c.requests > 0 \/ Sent(c) # {})) =>
              /\ c.citations = 1
              /\ c.notarizations = 1
              /\ c.credentials # NoCredentials
              /\ c.credentials.seal = account

\* fetchCertificate has thrown $unexpected caused by the rejection of
\* notarizeDocument, and nothing was sent.
C21_Witness ==
    \E p \in Procs :
        /\ calls[p].pc = "settled"
        /\ calls[p].op = fetchCertificate
        /\ calls[p].notarizations = 1
        /\ calls[p].validations = 0
        /\ calls[p].outcome.wrapped
        /\ calls[p].outcome.exception.function = "$notarizeDocument"
        /\ calls[p].outcome.exception.module = "$Notary"
        /\ wire = <<>>

\* C22: the request of an operation on a kind has the url of the repository,
\* that kind, a slash and the identifier, and whatever the repository does
\* with it, of every other kind it holds after the request what it held
\* before, under the same identifier too: an operation on a draft changes no
\* certificate, document or type and no queue, and so between any two kinds.
C22_KindsAreDisjoint ==
    [][\A p \in Procs :
          LET c == calls[p] IN
          (c.pc = "axios" /\ calls'[p].pc = "settled") =>
              /\ c.options.url = cloudURL \o c.op.type \o "/" \o c.identifier
              /\ \A k \in StoreKinds \ {c.op.type} :
                    /\ store'[k] = store[k]
                    /\ ledger'[k] = ledger[k]
              /\ c.op.type # "queue" => queues' = queues
              /\ \A k \in StoreKinds \cap {c.op.type} :
                    \A i \in Identifiers \ {c.identifier} :
                        /\ store'[k][i] = store[k][i]
                        /\ ledger'[k][i] = ledger[k][i]
    ]_vars

\* deleteDraft has removed the draft of an identifier and the repository
\* still holds the document that was created under the same identifier.
C22_Witness ==
    \E p \in Procs :
        /\ Answered(calls[p])
        /\ calls[p].op = deleteDraft
        /\ calls[p].event.status = 200
        /\ store["draft"][calls[p].identifier] = Undefined
        /\ store["document"][calls[p].identifier] = Str("[$foo: 1]")
        /\ ledger["document"][calls[p].identifier] =
               [exists |-> TRUE, payload |-> Str("[$foo: 1]")]

\* The pairs of a type and a method the facade operations call sendRequest
\* with, and the pairs the switch of sendRequest lets through.
FacadePairs == {<<op.type, op.method>> : op \in Facade}

ValidatedPairs ==
    {pair \in AnyTypes \X AnyMethods :
        Validate("$sendRequest", cloudURL, pair[2], pair[1]) = NoException}

\* C23: the 15 facade operations call sendRequest with exactly the pairs its
\* switch lets through, one operation for each pair; so every facade call
\* that has its credentials passes the validation and hands axios its
\* request, and none throws $unexpected caused by $invalidParameter.
C23_FacadeUsesExactlyTheAllowedPairs ==
    /\ FacadePairs = ValidatedPairs
    /\ Cardinality(Facade) = Cardinality(ValidatedPairs)
    /\ \A p \in Procs :
          LET c == calls[p] IN
          (c.facade /\ c.pc # "idle") =>
              /\ <<c.op.type, c.op.method>> \in ValidatedPairs
              /\ c.validations = 1 => c.requests = 1
              /\ c.pc = "settled" =>
                    c.outcome.exception.exception # "$invalidParameter"

\* dequeueMessage, the GET on a queue, has passed the validation and its
\* request is with axios.
C23_Witness ==
    \E p \in Procs :
        /\ calls[p].facade
        /\ calls[p].pc = "axios"
        /\ calls[p].op.name = "dequeueMessage"
        /\ <<calls[p].op.type, calls[p].op.method>> = <<"queue", "GET">>
        /\ calls[p].validations = 1
        /\ calls[p].requests = 1

====
